---------------------------- MODULE Spec2Model ----------------------------
(***************************************************************************)
(* A model of the matching engine of yarn_matcher.py: grist_matches,       *)
(* calculate_combined_grist, fuzzy_color_match, find_single_matches and    *)
(* find_combo_matches.                                                     *)
(*                                                                         *)
(* Python values are modelled as records:                                  *)
(*   None            [none |-> TRUE]                                       *)
(*   a number        [n |-> numerator, d |-> denominator], d > 0, in       *)
(*                   lowest terms                                          *)
(*   a string        [chars |-> <<"R", "e", "d">>]                         *)
(* Numbers are exact rationals: the arithmetic of the code is modelled     *)
(* without the rounding of IEEE doubles.                                   *)
(*                                                                         *)
(* Each function is applied in one step to a pending call: `call` holds    *)
(* the function's name and arguments, `stash` the list of yarns handed to  *)
(* the matchers, `ret` the value returned.  generate_html and main are     *)
(* modelled too: `trace` lists, in order, the calls they make and the      *)
(* effects they have outside the program.                                  *)
(***************************************************************************)
EXTENDS Integers, Sequences, FiniteSets

VARIABLES pc, call, ret, stash, trace

vars == <<pc, call, ret, stash, trace>>

-----------------------------------------------------------------------------
(* Python values *)

None == [none |-> TRUE]

RECURSIVE GCD(_, _)
GCD(a, b) == IF b = 0 THEN a ELSE GCD(b, a % b)

Abs(i) == IF i < 0 THEN -i ELSE i

\* the number n/d (d # 0) in lowest terms with a positive denominator
R(n, d) ==
    LET g == GCD(Abs(n), Abs(d))
        s == IF d < 0 THEN -1 ELSE 1
    IN  [n |-> (s * n) \div g, d |-> (s * d) \div g]

Num(i) == R(i, 1)

Zero == Num(0)
One == Num(1)
Hundred == Num(100)

RAdd(a, b) == R(a.n * b.d + b.n * a.d, a.d * b.d)
RSub(a, b) == R(a.n * b.d - b.n * a.d, a.d * b.d)
RMul(a, b) == R(a.n * b.n, a.d * b.d)
RDiv(a, b) == R(a.n * b.d, a.d * b.n)
RNeg(a) == R(-a.n, a.d)
RAbs(a) == R(Abs(a.n), a.d)
RLe(a, b) == a.n * b.d <= b.n * a.d
RLt(a, b) == a.n * b.d < b.n * a.d

\* Python truth value of None or a number: `if x`
Truthy(x) == x # None /\ x.n # 0

\* Python `x or 0` for None or a number
OrZero(x) == IF Truthy(x) THEN x ELSE Zero

Str(s) == [chars |-> s]

\* Python truth value of None or a string
TruthyStr(c) == c # None /\ c.chars # <<>>

-----------------------------------------------------------------------------
(* Bounds of the model *)

\* target grists of grist_matches are the integers -2 .. MaxGrist
MaxGrist == 8

\* longest list handed to calculate_combined_grist
MaxGrists == 3

-----------------------------------------------------------------------------
(* grist_matches *)

DefaultTolerance == R(10, 100)

\* grist_matches with `<` in place of the second `<=`
\* grist_matches with `<` in place of the first `<=`
GristMatchesStrictLower(target, yarn, tolerance) ==
    IF ~Truthy(target) \/ ~Truthy(yarn)
    THEN FALSE
    ELSE /\ RLt(RMul(target, RSub(One, tolerance)), yarn)
         /\ RLe(yarn, RMul(target, RAdd(One, tolerance)))

\* grist_matches whose guard tests for None only
GristMatchesNoneGuardOnly(target, yarn, tolerance) ==
    IF target = None \/ yarn = None THEN FALSE
    ELSE /\ RLe(RMul(target, RSub(One, tolerance)), yarn)
         /\ RLe(yarn, RMul(target, RAdd(One, tolerance)))

GristMatchesStrictUpper(target, yarn, tolerance) ==
    IF ~Truthy(target) \/ ~Truthy(yarn)
    THEN FALSE
    ELSE /\ RLe(RMul(target, RSub(One, tolerance)), yarn)
         /\ RLt(yarn, RMul(target, RAdd(One, tolerance)))

grist_matches(target, yarn, tolerance) ==
    IF ~Truthy(target) \/ ~Truthy(yarn)
    THEN FALSE
    ELSE /\ RLe(RMul(target, RSub(One, tolerance)), yarn)
         /\ RLe(yarn, RMul(target, RAdd(One, tolerance)))

-----------------------------------------------------------------------------
(* calculate_combined_grist *)

\* sum(1/g for g in gs)
RECURSIVE SumOfReciprocals(_)
SumOfReciprocals(gs) ==
    IF gs = <<>> THEN Zero
    ELSE RAdd(RDiv(One, gs[1]), SumOfReciprocals(Tail(gs)))

\* sum(g for g in gs)
RECURSIVE SumOf(_)
SumOf(gs) ==
    IF gs = <<>> THEN Zero ELSE RAdd(gs[1], SumOf(Tail(gs)))

IsValidGrist(g) == Truthy(g) /\ RLt(Zero, g)

\* calculate_combined_grist with sum(g) in place of sum(1/g)
CombinedGristNoReciprocals(grists) ==
    LET valid_grists == SelectSeq(grists, IsValidGrist)
    IN  IF valid_grists = <<>> THEN None
        ELSE RDiv(One, SumOf(valid_grists))

calculate_combined_grist(grists) ==
    LET valid_grists == SelectSeq(grists, IsValidGrist)
    IN  IF valid_grists = <<>> THEN None
        ELSE RDiv(One, SumOfReciprocals(valid_grists))

-----------------------------------------------------------------------------
(* The calls of grist_matches and calculate_combined_grist *)

SeqsUpTo(S, n) == UNION {[1..k -> S] : k \in 0..n}

GristTargets == {None} \cup {Num(k) : k \in -2..MaxGrist}

\* candidates around each target: on, inside and outside the tolerance band
GristFactors ==
    {R(0, 1), R(1, 2), R(89, 100), R(9, 10), R(1, 1), R(11, 10), R(111, 100),
     R(3, 2), R(-1, 1)}

GristCandidates ==
    {None} \cup {RMul(Num(k), f) : k \in 1..MaxGrist, f \in GristFactors}

Tolerances == {Zero, DefaultTolerance, R(1, 2), R(3, 2)}

GristMatchesCalls ==
    [fn : {"grist_matches"}, target : GristTargets, yarn : GristCandidates,
     tolerance : Tolerances]

CombinedGristCalls ==
    [fn : {"calculate_combined_grist"},
     grists : SeqsUpTo({None} \cup {Num(k) : k \in -1..MaxGrist}, MaxGrists)]

InitGrist ==
    /\ pc = "call"
    /\ call \in GristMatchesCalls \cup CombinedGristCalls
    /\ ret = None
    /\ trace = <<>>
    /\ stash = <<>>

GristMatches ==
    /\ pc = "call"
    /\ call.fn = "grist_matches"
    /\ ret' = grist_matches(call.target, call.yarn, call.tolerance)
    /\ pc' = "return"
    /\ UNCHANGED <<call, stash, trace>>

CalculateCombinedGrist ==
    /\ pc = "call"
    /\ call.fn = "calculate_combined_grist"
    /\ ret' = calculate_combined_grist(call.grists)
    /\ pc' = "return"
    /\ UNCHANGED <<call, stash, trace>>

NextGrist == GristMatches \/ CalculateCombinedGrist

SpecGrist == InitGrist /\ [][NextGrist]_vars

-----------------------------------------------------------------------------
(* fuzzy_color_match *)

UpperCaseLetters ==
    <<"A", "B", "C", "D", "E", "F", "G", "H", "I", "J", "K", "L", "M",
      "N", "O", "P", "Q", "R", "S", "T", "U", "V", "W", "X", "Y", "Z">>

LowerCaseLetters ==
    <<"a", "b", "c", "d", "e", "f", "g", "h", "i", "j", "k", "l", "m",
      "n", "o", "p", "q", "r", "s", "t", "u", "v", "w", "x", "y", "z">>

\* str.lower() on the letters A-Z
LowerOfUpper ==
    [c \in {UpperCaseLetters[i] : i \in 1..Len(UpperCaseLetters)} |->
        LowerCaseLetters[CHOOSE i \in 1..Len(UpperCaseLetters) :
                             UpperCaseLetters[i] = c]]

\* every other character is kept
LowerChar(c) == IF c \in DOMAIN LowerOfUpper THEN LowerOfUpper[c] ELSE c

Lower(s) == [i \in 1..Len(s) |-> LowerChar(s[i])]

\* Python `a in b` for strings
Contains(a, b) ==
    \E i \in 0..(Len(b) - Len(a)) : \A k \in 1..Len(a) : b[i + k] = a[k]

colors ==
    <<<<"r", "e", "d">>,
      <<"b", "l", "u", "e">>,
      <<"g", "r", "e", "e", "n">>,
      <<"y", "e", "l", "l", "o", "w">>,
      <<"o", "r", "a", "n", "g", "e">>,
      <<"p", "u", "r", "p", "l", "e">>,
      <<"p", "i", "n", "k">>,
      <<"b", "r", "o", "w", "n">>,
      <<"b", "l", "a", "c", "k">>,
      <<"w", "h", "i", "t", "e">>,
      <<"g", "r", "e", "y">>,
      <<"g", "r", "a", "y">>,
      <<"c", "r", "e", "a", "m">>,
      <<"b", "e", "i", "g", "e">>,
      <<"n", "a", "v", "y">>,
      <<"t", "e", "a", "l">>,
      <<"c", "o", "r", "a", "l">>,
      <<"b", "u", "r", "g", "u", "n", "d", "y">>,
      <<"m", "a", "r", "o", "o", "n">>,
      <<"o", "l", "i", "v", "e">>>>

\* next((c for c in vocabulary[i:] if c in s), None)
RECURSIVE FirstContainedFrom(_, _, _)
FirstContainedFrom(vocabulary, s, i) ==
    IF i > Len(vocabulary) THEN None
    ELSE IF Contains(vocabulary[i], s) THEN Str(vocabulary[i])
    ELSE FirstContainedFrom(vocabulary, s, i + 1)

\* next((c for c in vocabulary if c in s), None)
FirstContained(vocabulary, s) == FirstContainedFrom(vocabulary, s, 1)

ContainsGrey(s) ==
    Contains(<<"g", "r", "e", "y">>, s) \/ Contains(<<"g", "r", "a", "y">>, s)

\* fuzzy_color_match without the comparison of the base hues
FuzzyColorMatchNoBaseHue(c1, c2) ==
    IF ~TruthyStr(c1) \/ ~TruthyStr(c2) THEN FALSE
    ELSE LET l1 == Lower(c1.chars)
             l2 == Lower(c2.chars)
         IN  IF l1 = l2 \/ Contains(l1, l2) \/ Contains(l2, l1) THEN TRUE
             ELSE IF ContainsGrey(l1) /\ ContainsGrey(l2) THEN TRUE
             ELSE FALSE

\* fuzzy_color_match without the two substring tests
FuzzyColorMatchExactOnly(c1, c2) ==
    IF ~TruthyStr(c1) \/ ~TruthyStr(c2) THEN FALSE
    ELSE LET l1 == Lower(c1.chars)
             l2 == Lower(c2.chars)
         IN  IF l1 = l2 THEN TRUE
             ELSE LET c1_base == FirstContained(colors, l1)
                      c2_base == FirstContained(colors, l2)
                  IN  IF /\ TruthyStr(c1_base)
                         /\ TruthyStr(c2_base)
                         /\ c1_base = c2_base
                      THEN TRUE
                      ELSE IF ContainsGrey(l1) /\ ContainsGrey(l2) THEN TRUE
                      ELSE FALSE

fuzzy_color_match(c1, c2) ==
    IF ~TruthyStr(c1) \/ ~TruthyStr(c2) THEN FALSE
    ELSE LET l1 == Lower(c1.chars)
             l2 == Lower(c2.chars)
         IN  IF l1 = l2 \/ Contains(l1, l2) \/ Contains(l2, l1) THEN TRUE
             ELSE LET c1_base == FirstContained(colors, l1)
                      c2_base == FirstContained(colors, l2)
                  IN  IF /\ TruthyStr(c1_base)
                         /\ TruthyStr(c2_base)
                         /\ c1_base = c2_base
                      THEN TRUE
                      ELSE IF ContainsGrey(l1) /\ ContainsGrey(l2) THEN TRUE
                      ELSE FALSE

-----------------------------------------------------------------------------
(* The calls of fuzzy_color_match *)

ColorWords ==
    {<<"R", "e", "d">>,
     <<"H", "e", "a", "t", "h", "e", "r">>,
     <<"O", "c", "e", "a", "n">>,
     <<"N", "a", "v", "y">>,
     <<"B", "l", "u", "e">>,
     <<"S", "c", "a", "r", "l", "e", "t">>,
     <<"G", "r", "a", "y">>,
     <<"g", "r", "e", "y">>,
     <<"C", "r", "e", "a", "m">>,
     <<"D", "a", "r", "k">>}

\* None, the empty string, one word, or two words joined by a space
ColorStrings ==
    {None, Str(<<>>)}
        \cup {Str(w) : w \in ColorWords}
        \cup {Str(v \o <<" ">> \o w) : v \in ColorWords, w \in ColorWords}

FuzzyColorMatchCalls ==
    [fn : {"fuzzy_color_match"}, c1 : ColorStrings, c2 : ColorStrings]

InitColor ==
    /\ pc = "call"
    /\ call \in FuzzyColorMatchCalls
    /\ ret = None
    /\ trace = <<>>
    /\ stash = <<>>

FuzzyColorMatch ==
    /\ pc = "call"
    /\ call.fn = "fuzzy_color_match"
    /\ ret' = fuzzy_color_match(call.c1, call.c2)
    /\ pc' = "return"
    /\ UNCHANGED <<call, stash, trace>>

NextColor == FuzzyColorMatch

SpecColor == InitColor /\ [][NextColor]_vars

-----------------------------------------------------------------------------
(* list.sort(key=...) *)

\* Python's order on tuples of numbers of the same length: k1 < k2
RECURSIVE KeyLt(_, _)
KeyLt(k1, k2) ==
    IF k1 = <<>> THEN FALSE
    ELSE IF RLt(k1[1], k2[1]) THEN TRUE
    ELSE IF RLt(k2[1], k1[1]) THEN FALSE
    ELSE KeyLt(Tail(k1), Tail(k2))

\* e goes before the first entry whose key is greater than its own
RECURSIVE InsertByKey(_, _)
InsertByKey(e, s) ==
    IF s = <<>> THEN <<e>>
    ELSE IF KeyLt(e.key, s[1].key) THEN <<e>> \o s
    ELSE <<s[1]>> \o InsertByKey(e, Tail(s))

\* the stable sort of a list of [key, item] by key
RECURSIVE SortByKey(_)
SortByKey(s) ==
    IF s = <<>> THEN <<>>
    ELSE InsertByKey(s[Len(s)], SortByKey(SubSeq(s, 1, Len(s) - 1)))

\* items.sort(key=...), keys[i] being the key of items[i]: stable, ascending
Sorted(items, keys) ==
    LET keyed == [i \in 1..Len(items) |-> [key |-> keys[i], item |-> items[i]]]
        sorted == SortByKey(keyed)
    IN  [i \in 1..Len(items) |-> sorted[i].item]

\* Python's int(b) of a bool, as in the order False < True
BoolNum(b) == IF b THEN One ELSE Zero

-----------------------------------------------------------------------------
(* find_single_matches *)

\* A yarn of the stash is [grist, available_yards, color]; the results refer
\* to a yarn by its position in the stash (the code keeps a reference to the
\* yarn's dict).

\* GristDiff relative to the grist of the yarn
GristDiffOverGrist(target_grist, grist) ==
    RMul(RDiv(RAbs(RSub(target_grist, grist)), grist), Hundred)

\* abs(target_grist - grist) / target_grist * 100
GristDiff(target_grist, grist) ==
    RMul(RDiv(RAbs(RSub(target_grist, grist)), target_grist), Hundred)

\* the division of the difference raises: TypeError on None, ZeroDivisionError
\* on a target of 0
GristDiffRaises(target_grist, grist) ==
    \/ target_grist = None
    \/ grist = None
    \/ target_grist = Zero

SingleKeyGristDiff(x) == <<x.grist_diff>>
SingleKeyHaveThenGristDiff(x) == <<RNeg(x.have), x.grist_diff>>

\* SingleBucket with `target_yardage is None` in place of `not target_yardage`
SingleBucketZeroIsQuantity(target_yardage, available) ==
    IF target_yardage = None
    THEN IF RLt(Zero, available) THEN "unknown" ELSE "none"
    ELSE IF RLe(target_yardage, available) THEN "enough"
    ELSE "not_enough"

\* SingleBucket without the test `available > 0` of line 128
SingleBucketUnknownKeepsAll(target_yardage, available) ==
    IF ~Truthy(target_yardage) THEN "unknown"
    ELSE IF RLe(target_yardage, available) THEN "enough"
    ELSE "not_enough"

\* SingleBucket with the yarns that fall short of target_yardage appended to
\* unknown
SingleBucketShortIsUnknown(target_yardage, available) ==
    IF ~Truthy(target_yardage)
    THEN IF RLt(Zero, available) THEN "unknown" ELSE "none"
    ELSE IF RLe(target_yardage, available) THEN "enough"
    ELSE "unknown"

\* the list a grist-matching yarn is appended to, "none" when it is dropped
SingleBucket(target_yardage, available) ==
    IF ~Truthy(target_yardage)
    THEN IF RLt(Zero, available) THEN "unknown" ELSE "none"
    ELSE IF RLe(target_yardage, available) THEN "enough"
    ELSE "not_enough"

\* the three lists before they are sorted
RECURSIVE SingleScan(_, _, _, _, _)
SingleScan(target_grist, target_yardage, stash_, i, acc) ==
    IF i > Len(stash_) THEN acc
    ELSE
      LET yarn == stash_[i]
          available == OrZero(yarn.available_yards)
          info == [yarn |-> i,
                   grist_diff |-> GristDiff(target_grist, yarn.grist),
                   have |-> available]
          bucket == SingleBucket(target_yardage, available)
          next ==
            IF ~grist_matches(target_grist, yarn.grist, DefaultTolerance)
            THEN acc
            ELSE IF bucket = "unknown"
            THEN [acc EXCEPT !.unknown = Append(@, info)]
            ELSE IF bucket = "enough"
            THEN [acc EXCEPT !.enough = Append(@, info)]
            ELSE IF bucket = "not_enough"
            THEN [acc EXCEPT !.not_enough = Append(@,
                    [yarn |-> i, grist_diff |-> info.grist_diff,
                     needed |-> target_yardage, have |-> available])]
            ELSE acc
      IN  SingleScan(target_grist, target_yardage, stash_, i + 1, next)

\* find_single_matches without the three sorts
FindSingleMatchesUnsorted(target_grist, target_yardage, stash_) ==
    SingleScan(target_grist, target_yardage, stash_, 1,
               [enough |-> <<>>, not_enough |-> <<>>, unknown |-> <<>>])

\* some yarn passes the test of line 120 and the difference of line 124 raises
FindSingleMatchesRaises(target_grist, stash_) ==
    \E i \in 1..Len(stash_) :
        /\ grist_matches(target_grist, stash_[i].grist, DefaultTolerance)
        /\ GristDiffRaises(target_grist, stash_[i].grist)

find_single_matches(target_grist, target_yardage, stash_) ==
    LET lists == SingleScan(target_grist, target_yardage, stash_, 1,
                            [enough |-> <<>>, not_enough |-> <<>>,
                             unknown |-> <<>>])
    IN  [enough |->
           Sorted(lists.enough,
                  [k \in 1..Len(lists.enough) |->
                      SingleKeyGristDiff(lists.enough[k])]),
         not_enough |->
           Sorted(lists.not_enough,
                  [k \in 1..Len(lists.not_enough) |->
                      SingleKeyGristDiff(lists.not_enough[k])]),
         unknown |->
           Sorted(lists.unknown,
                  [k \in 1..Len(lists.unknown) |->
                      SingleKeyHaveThenGristDiff(lists.unknown[k])])]

-----------------------------------------------------------------------------
(* find_combo_matches *)

\* c1 or c2
ColorOr(c1, c2) == IF TruthyStr(c1) THEN c1 ELSE c2

\* has >= target_yardage if target_yardage else True
HasEnough(target_yardage, has) ==
    IF Truthy(target_yardage) THEN RLe(target_yardage, has) ELSE TRUE

\* BothEnough with the two quantities added together
BothEnoughPooled(target_yardage, has_a, has_b) ==
    IF Truthy(target_yardage)
    THEN RLe(target_yardage, RAdd(has_a, has_b))
    ELSE TRUE

\* both_enough
BothEnough(target_yardage, has_a, has_b) ==
    IF Truthy(target_yardage)
    THEN RLe(target_yardage, has_a) /\ RLe(target_yardage, has_b)
    ELSE TRUE

Combo(target_grist, target_yardage, stash_, i, j, combined) ==
    LET yarn_a == stash_[i]
        yarn_b == stash_[j]
        has_a == OrZero(yarn_a.available_yards)
        has_b == OrZero(yarn_b.available_yards)
    IN  [yarns |-> <<i, j>>,
         combined_grist |-> combined,
         grist_diff |-> GristDiff(target_grist, combined),
         has |-> <<has_a, has_b>>,
         enough |-> <<HasEnough(target_yardage, has_a),
                      HasEnough(target_yardage, has_b)>>,
         both_enough |-> BothEnough(target_yardage, has_a, has_b),
         shared_color |-> ColorOr(yarn_a.color, yarn_b.color)]

\* PairQualifies without the test of the colours
PairQualifiesIgnoringColor(target_grist, yarn_a, yarn_b) ==
    LET combined == calculate_combined_grist(<<yarn_a.grist, yarn_b.grist>>)
    IN  /\ Truthy(combined)
        /\ grist_matches(target_grist, combined, DefaultTolerance)

\* neither `continue` of the inner loop is taken
PairQualifies(target_grist, yarn_a, yarn_b) ==
    /\ fuzzy_color_match(yarn_a.color, yarn_b.color)
    /\ LET combined == calculate_combined_grist(<<yarn_a.grist, yarn_b.grist>>)
       IN  /\ Truthy(combined)
           /\ grist_matches(target_grist, combined, DefaultTolerance)

\* the initial state of the scan: the list combos, the pairs
\* (i, j) the inner loop has taken up, in order, and whether line 168 raised
EmptyScan == [combos |-> <<>>, examined |-> <<>>, raised |-> FALSE]

\* ScanFull with > for >=
ScanFullStrict(combos, max_combos) == Len(combos) > max_combos * 2

\* ScanFull with the threshold max_combos in place of max_combos * 2
ScanFullAtMax(combos, max_combos) == Len(combos) >= max_combos

\* ScanFull with the threshold reached one combo early
ScanFullOneEarly(combos, max_combos) == Len(combos) >= max_combos * 2 - 1

\* len(combos) >= max_combos * 2
ScanFull(combos, max_combos) == Len(combos) >= max_combos * 2

\* the inner loop over stash[i+1:], from position j on
RECURSIVE ComboInnerLoop(_, _, _, _, _, _, _)
ComboInnerLoop(target_grist, target_yardage, stash_, max_combos, i, j, scan) ==
    IF j > Len(stash_) THEN scan
    ELSE
      LET seen == [scan EXCEPT !.examined = Append(@, <<i, j>>)]
      IN
      IF ~PairQualifies(target_grist, stash_[i], stash_[j])
      THEN ComboInnerLoop(target_grist, target_yardage, stash_, max_combos,
                          i, j + 1, seen)
      ELSE
        LET combined ==
              calculate_combined_grist(<<stash_[i].grist, stash_[j].grist>>)
        IN
        IF GristDiffRaises(target_grist, combined)
        THEN [seen EXCEPT !.raised = TRUE]
        ELSE
          LET appended ==
                [seen EXCEPT !.combos =
                    Append(@, Combo(target_grist, target_yardage, stash_,
                                    i, j, combined))]
          IN  IF ScanFull(appended.combos, max_combos) THEN appended
              ELSE ComboInnerLoop(target_grist, target_yardage, stash_,
                                  max_combos, i, j + 1, appended)

\* InnerStart for an inner loop over stash[i:]
InnerStartAtSelf(i) == i

\* the first position of stash[i+1:]
InnerStart(i) == i + 1

\* the outer loop over enumerate(stash), from position i on
RECURSIVE ComboOuterLoop(_, _, _, _, _, _)
ComboOuterLoop(target_grist, target_yardage, stash_, max_combos, i, scan) ==
    IF i > Len(stash_) THEN scan
    ELSE
      LET after == ComboInnerLoop(target_grist, target_yardage, stash_,
                                  max_combos, i, InnerStart(i), scan)
      IN  IF after.raised \/ ScanFull(after.combos, max_combos) THEN after
          ELSE ComboOuterLoop(target_grist, target_yardage, stash_,
                              max_combos, i + 1, after)

\* the two loops of find_combo_matches
ComboScan(target_grist, target_yardage, stash_, max_combos) ==
    ComboOuterLoop(target_grist, target_yardage, stash_, max_combos, 1,
                   EmptyScan)

\* line 168 raises for some pair the scan takes up
FindComboMatchesRaises(target_grist, target_yardage, stash_, max_combos) ==
    ComboScan(target_grist, target_yardage, stash_, max_combos).raised

\* ComboKey without both_enough
ComboKeyGristDiffOnly(x) == <<x.grist_diff>>

\* lambda x: (not x['both_enough'], x['grist_diff'])
ComboKey(x) == <<BoolNum(~x.both_enough), x.grist_diff>>

\* s[:k] for k >= 0
Prefix(s, k) == SubSeq(s, 1, IF k < Len(s) THEN k ELSE Len(s))

\* combos.sort(key=...); return combos[:max_combos]
SortedAndCut(combos, max_combos) ==
    Prefix(Sorted(combos, [k \in 1..Len(combos) |-> ComboKey(combos[k])]),
           max_combos)

find_combo_matches(target_grist, target_yardage, stash_, max_combos) ==
    SortedAndCut(ComboScan(target_grist, target_yardage, stash_,
                           max_combos).combos,
                 max_combos)

-----------------------------------------------------------------------------
(* What the matchers do to their arguments *)

\* StashAfterMatch for a matcher that reverses the stash in place
StashAfterMatchReversed(stash_) ==
    [k \in 1..Len(stash_) |-> stash_[Len(stash_) + 1 - k]]

\* the stash after a call of find_single_matches or find_combo_matches: both
\* only iterate over it and read its yarns; the lists they sort are their own
StashAfterMatch(stash_) == stash_

-----------------------------------------------------------------------------
(* The calls of find_single_matches *)

\* longest stash
MaxStash == 3

Yarn(grist, available_yards, color) ==
    [grist |-> grist, available_yards |-> available_yards, color |-> color]

Red == Str(<<"R", "e", "d">>)
RedHeather == Str(<<"R", "e", "d", " ", "H", "e", "a", "t", "h", "e", "r">>)
Blue == Str(<<"B", "l", "u", "e">>)

SingleYarns ==
    {Yarn(g, a, Red) :
        g \in {Num(7), R(63, 10), Num(8)},
        a \in {None, Zero, Num(300), Num(500)}}

FindSingleMatchesCalls ==
    [fn : {"find_single_matches"},
     target_grist : {None, Zero, Num(7)},
     target_yardage : {None, Zero, Num(400), Num(600)}]

InitSingle ==
    /\ pc = "call"
    /\ call \in FindSingleMatchesCalls
    /\ ret = None
    /\ trace = <<>>
    /\ stash \in SeqsUpTo(SingleYarns, MaxStash)

FindSingleMatches ==
    /\ pc = "call"
    /\ call.fn = "find_single_matches"
    /\ IF FindSingleMatchesRaises(call.target_grist, stash)
       THEN /\ pc' = "raise"
            /\ ret' = None
       ELSE /\ pc' = "return"
            /\ ret' = find_single_matches(call.target_grist,
                                          call.target_yardage, stash)
    /\ stash' = StashAfterMatch(stash)
    /\ UNCHANGED <<call, trace>>

NextSingle == FindSingleMatches

SpecSingle == InitSingle /\ [][NextSingle]_vars

-----------------------------------------------------------------------------
(* The calls of find_combo_matches *)

\* largest max_combos
MaxCombos == 2

ComboYarns ==
    {Yarn(g, a, c) :
        g \in {Num(14), Num(16)},
        a \in {None, Num(500)},
        c \in {Red, RedHeather, Blue}}

FindComboMatchesCalls ==
    [fn : {"find_combo_matches"},
     target_grist : {Num(7)},
     target_yardage : {None, Zero, Num(400)},
     max_combos : 0..MaxCombos]

InitCombo ==
    /\ pc = "call"
    /\ call \in FindComboMatchesCalls
    /\ ret = None
    /\ trace = <<>>
    /\ stash \in SeqsUpTo(ComboYarns, MaxStash)

FindComboMatches ==
    /\ pc = "call"
    /\ call.fn = "find_combo_matches"
    /\ \E scan \in {ComboScan(call.target_grist, call.target_yardage, stash,
                                call.max_combos)} :
           IF scan.raised
           THEN /\ pc' = "raise"
                /\ ret' = None
           ELSE /\ pc' = "return"
                /\ ret' = SortedAndCut(scan.combos, call.max_combos)
    /\ stash' = StashAfterMatch(stash)
    /\ UNCHANGED <<call, trace>>

NextCombo == FindComboMatches

SpecCombo == InitCombo /\ [][NextCombo]_vars

-----------------------------------------------------------------------------
(* The calls of find_combo_matches whose scan is followed pair by pair *)

ScanYarns ==
    {Yarn(g, Num(500), c) : g \in {Num(14), Num(16)}, c \in {Red, Blue}}

InitScan ==
    /\ pc = "call"
    /\ call \in [fn : {"find_combo_matches"},
                 target_grist : {Num(7)},
                 target_yardage : {None, Num(400)},
                 max_combos : 0..MaxCombos]
    /\ ret = None
    /\ trace = <<>>
    /\ stash \in SeqsUpTo(ScanYarns, MaxStash)

SpecScan == InitScan /\ [][NextCombo]_vars

-----------------------------------------------------------------------------
(* The calls of find_combo_matches whose result is compared with the ranking
   of all the pairs of the stash *)

RankYarns ==
    {Yarn(g, a, c) :
        g \in {Num(14), Num(16)},
        a \in {None, Num(500)},
        c \in {Red, Blue}}

InitRank ==
    /\ pc = "call"
    /\ call \in [fn : {"find_combo_matches"},
                 target_grist : {Num(7)},
                 target_yardage : {None, Num(400)},
                 max_combos : 0..MaxCombos]
    /\ ret = None
    /\ trace = <<>>
    /\ stash \in SeqsUpTo(RankYarns, MaxStash)

SpecRank == InitRank /\ [][NextCombo]_vars

-----------------------------------------------------------------------------
(* The calls of the two matchers on sparse data *)

\* longest sparse stash
MaxSparseStash == 2

EmptyColor == Str(<<>>)

\* yarns whose grist, available_yards or color is missing, zero or empty
SparseYarns ==
    {Yarn(g, a, c) :
        g \in {None, Zero, Num(14)},
        a \in {None, Num(500)},
        c \in {None, EmptyColor, Red}}

SparseCalls ==
    [fn : {"find_single_matches"},
     target_grist : {None, Zero, Num(7), Num(14)},
     target_yardage : {None, Num(400)}]
    \cup
    [fn : {"find_combo_matches"},
     target_grist : {None, Zero, Num(7)},
     target_yardage : {None, Num(400)},
     max_combos : 0..MaxCombos]

InitSparse ==
    /\ pc = "call"
    /\ call \in SparseCalls
    /\ ret = None
    /\ trace = <<>>
    /\ stash \in SeqsUpTo(SparseYarns, MaxSparseStash)

\* the caller keeps the result and calls the matcher a second time with the
\* same arguments
CallAgain ==
    /\ pc = "return"
    /\ call.fn \in {"find_single_matches", "find_combo_matches"}
    /\ trace = <<>>
    /\ trace' = <<[fn |-> call.fn, returned |-> ret]>>
    /\ ret' = None
    /\ pc' = "call"
    /\ UNCHANGED <<call, stash>>

NextSparse == FindSingleMatches \/ FindComboMatches \/ CallAgain

SpecSparse == InitSparse /\ [][NextSparse]_vars

-----------------------------------------------------------------------------
(* generate_html *)

\* A dict read from JSON is a record that has the keys present in the text:
\* d.get(key, default)
Get(d, key, default) == IF key \in DOMAIN d THEN d[key] ELSE default

\* max_combos=10
DefaultMaxCombos == 10

\* the calls of the matchers generate_html makes, as entries of `trace`
SingleCall(k, target_grist, target_yardage) ==
    [fn |-> "find_single_matches", requirement |-> k,
     target_grist |-> target_grist, target_yardage |-> target_yardage]

ComboCall(k, target_grist, target_yardage) ==
    [fn |-> "find_combo_matches", requirement |-> k,
     target_grist |-> target_grist, target_yardage |-> target_yardage,
     max_combos |-> DefaultMaxCombos]

CombinedCall(combined_grist, max_yardage) ==
    [fn |-> "find_single_matches", combined |-> TRUE,
     target_grist |-> combined_grist, target_yardage |-> max_yardage]

\* The html is modelled as the sequence of the groups of "Your Stash
\* Matches".  "Cannot match - missing grist information"
CannotMatch(k) == [group |-> "cannot_match", requirement |-> k]

\* "Matches for: ..." with the cards of the four lists
MatchGroup(k, single, combos) ==
    [group |-> "matches", requirement |-> k,
     enough |-> single.enough,
     unknown |-> Prefix(single.unknown, 10),
     not_enough |-> Prefix(single.not_enough, 8),
     combos |-> Prefix(combos, 5)]

\* "Single Yarns Matching Combined Grist"
CombinedGroup(single) ==
    [group |-> "combined",
     enough |-> single.enough,
     unknown |-> Prefix(single.unknown, 10),
     not_enough |-> Prefix(single.not_enough, 5)]

\* AfterCannotMatch for a `break`
AfterCannotMatchBreak(yarns, k) == Len(yarns) + 1

\* `continue`: the loop goes on with the next requirement
AfterCannotMatch(yarns, k) == k + 1

\* yarn.get('grist_yd_per_g'), yarn.get('yards_needed')
TargetGrist(yarn) == Get(yarn, "grist_yd_per_g", None)
TargetYardage(yarn) == Get(yarn, "yards_needed", None)

\* the body of the loop over the requirements for the k-th of them
HtmlRequirement(yarn, stash_, k, out) ==
    IF ~Truthy(TargetGrist(yarn))
    THEN [out EXCEPT !.html = Append(@, CannotMatch(k))]
    ELSE [html |->
            Append(out.html,
                   MatchGroup(k,
                              find_single_matches(TargetGrist(yarn),
                                                  TargetYardage(yarn), stash_),
                              find_combo_matches(TargetGrist(yarn),
                                                 TargetYardage(yarn), stash_,
                                                 DefaultMaxCombos))),
          calls |->
            out.calls
            \o <<SingleCall(k, TargetGrist(yarn), TargetYardage(yarn)),
                 ComboCall(k, TargetGrist(yarn), TargetYardage(yarn))>>]

\* the loop over the requirements, from position k on
RECURSIVE HtmlRequirements(_, _, _, _)
HtmlRequirements(yarns, stash_, k, out) ==
    IF k > Len(yarns) THEN out
    ELSE HtmlRequirements(yarns, stash_,
                          IF ~Truthy(TargetGrist(yarns[k]))
                          THEN AfterCannotMatch(yarns, k)
                          ELSE k + 1,
                          HtmlRequirement(yarns[k], stash_, k, out))

\* the largest element of a non-empty set of numbers
RMax(S) == CHOOSE m \in S : \A x \in S : RLe(x, m)

\* MaxYardage taking the yards of the last requirement
MaxYardageOfLast(yarns) ==
    IF Len(yarns) = 0 THEN None
    ELSE OrZero(Get(yarns[Len(yarns)], "yards_needed", None))

\* max((y.get('yards_needed') or 0) for y in yarns) if yarns else None
MaxYardage(yarns) ==
    IF Len(yarns) = 0 THEN None
    ELSE RMax({OrZero(Get(yarns[k], "yards_needed", None)) :
                  k \in 1..Len(yarns)})

\* the html and the calls of the matchers made on the way
generate_html(pattern_data, stash_) ==
    LET yarns == Get(pattern_data, "yarns", <<>>)
        combined_grist == Get(pattern_data, "combined_grist", None)
        out == HtmlRequirements(yarns, stash_, 1,
                                [html |-> <<>>, calls |-> <<>>])
    IN  IF Truthy(combined_grist)
        THEN LET max_yardage == MaxYardage(yarns)
                 single == find_single_matches(combined_grist, max_yardage,
                                               stash_)
             IN  [html |-> Append(out.html, CombinedGroup(single)),
                  calls |-> Append(out.calls,
                                   CombinedCall(combined_grist, max_yardage))]
        ELSE out

-----------------------------------------------------------------------------
(* The calls of generate_html *)

\* most requirements of a pattern
MaxYarns == 3

RequirementGrists == {Zero, Num(7), Num(14)}
RequirementYards == {Num(400), Num(600)}

\* the dicts of pattern_data['yarns'], with either key present or not
Requirements ==
    [grist_yd_per_g : RequirementGrists, yards_needed : RequirementYards]
    \cup [grist_yd_per_g : {Num(7)}]
    \cup [yards_needed : {Num(400)}]

PatternCombinedGrists == {None, Zero, Num(7)}

Patterns ==
    [yarns : SeqsUpTo(Requirements, MaxYarns),
     combined_grist : PatternCombinedGrists]
    \cup [yarns : SeqsUpTo(Requirements, MaxYarns)]
    \cup [combined_grist : PatternCombinedGrists]

HtmlStashes ==
    {<<>>,
     <<Yarn(Num(7), Num(500), Red)>>,
     <<Yarn(Num(14), Num(500), Red), Yarn(Num(14), None, RedHeather)>>}

InitHtml ==
    /\ pc = "call"
    /\ call \in [fn : {"generate_html"}, pattern_data : Patterns]
    /\ ret = None
    /\ trace = <<>>
    /\ stash \in HtmlStashes

GenerateHtml ==
    /\ pc = "call"
    /\ call.fn = "generate_html"
    /\ LET out == generate_html(call.pattern_data, stash)
       IN  /\ ret' = out.html
           /\ trace' = out.calls
    /\ pc' = "return"
    /\ UNCHANGED <<call, stash>>

NextHtml == GenerateHtml

SpecHtml == InitHtml /\ [][NextHtml]_vars

-----------------------------------------------------------------------------
(* fetch_stash *)

\* Airtable is modelled by the pages it answers the requests of one fetch
\* with, in order: a page is the JSON of a response, [records |-> ...], or the
\* failure of the request; every page but the last carries an offset.
HTTPError == [error |-> "HTTPError"]
ConnectionError == [error |-> "ConnectionError"]

GristField == "Grist - Yardage per gram"
YardsField == "Available - Yards"
ColorField == "Color description"

\* requests.get(...) for the i-th page, as an entry of `trace`
RequestsGet(i) == [fn |-> "requests.get", page |-> i]

\* the loop `while True`, from the request of page i on: the records
\* gathered, the requests made and the exception raised, if any
RECURSIVE FetchRecords(_, _, _)
FetchRecords(pages, i, scan) ==
    LET requested == [scan EXCEPT !.requests = Append(@, RequestsGet(i))]
    IN  IF "error" \in DOMAIN pages[i]
        THEN [requested EXCEPT !.raised = pages[i].error]
        ELSE
          LET extended ==
                [requested EXCEPT
                    !.all_records = @ \o Get(pages[i], "records", <<>>)]
          IN  IF i < Len(pages) THEN FetchRecords(pages, i + 1, extended)
              ELSE extended

\* if yarn['grist'] is not None
KeepsYarn(yarn) == yarn.grist # None

\* the loop over all_records, from position k on; name and available_grams,
\* which the matchers do not read, are left out of the yarn
RECURSIVE BuildStash(_, _, _)
BuildStash(all_records, k, stash_) ==
    IF k > Len(all_records) THEN stash_
    ELSE
      LET fields == Get(all_records[k], "fields", <<>>)
          yarn == Yarn(Get(fields, GristField, None),
                       Get(fields, YardsField, None),
                       Get(fields, ColorField, EmptyColor))
      IN  BuildStash(all_records, k + 1,
                     IF KeepsYarn(yarn) THEN Append(stash_, yarn) ELSE stash_)

FetchScan(pages) ==
    FetchRecords(pages, 1,
                 [all_records |-> <<>>, requests |-> <<>>, raised |-> ""])

\* the exception fetch_stash raises, "" when it returns
FetchStashRaises(pages) == FetchScan(pages).raised

fetch_stash(pages) == BuildStash(FetchScan(pages).all_records, 1, <<>>)

-----------------------------------------------------------------------------
(* The calls of fetch_stash *)

\* most pages of a fetch
MaxPages == 3

AirtableGrists == {Zero, Num(-7), Num(7)}

AirtableFields ==
    {[k \in {GristField, YardsField, ColorField} |->
         IF k = GristField THEN g ELSE IF k = YardsField THEN Num(500) ELSE Red]
       : g \in AirtableGrists}
    \cup [{GristField} -> AirtableGrists]
    \cup [{YardsField} -> {Num(500)}]

AirtableRecords == [fields : AirtableFields] \cup {[id |-> "rec"]}

AirtablePages ==
    [records : SeqsUpTo(AirtableRecords, 1)]
    \cup {[records |-> <<[fields |-> [k \in {GristField} |-> Num(7)]],
                         [fields |-> [k \in {GristField} |-> Num(14)]]>>]}
    \cup {HTTPError, ConnectionError}

InitFetch ==
    /\ pc = "call"
    /\ call \in [fn : {"fetch_stash"},
                 airtable : UNION {[1..n -> AirtablePages] : n \in 1..MaxPages}]
    /\ ret = None
    /\ trace = <<>>
    /\ stash = <<>>

FetchStash ==
    /\ pc = "call"
    /\ call.fn = "fetch_stash"
    /\ trace' = FetchScan(call.airtable).requests
    /\ IF FetchStashRaises(call.airtable) # ""
       THEN /\ pc' = "raise"
            /\ ret' = [error |-> FetchStashRaises(call.airtable)]
       ELSE /\ pc' = "return"
            /\ ret' = [stash |-> fetch_stash(call.airtable)]
    /\ UNCHANGED <<call, stash>>

NextFetch == FetchStash

SpecFetch == InitFetch /\ [][NextFetch]_vars

-----------------------------------------------------------------------------
(* The calls of find_combo_matches on the stash fetch_stash returned *)

FetchedStashCalls ==
    [fn : {"find_combo_matches"},
     target_grist : {Num(7), R(7, 2)},
     target_yardage : {None, Num(400)},
     max_combos : {1, DefaultMaxCombos}]

\* the caller hands the stash fetch_stash returned to find_combo_matches, as
\* main does through generate_html
MatchFetchedStash ==
    /\ pc = "return"
    /\ call.fn = "fetch_stash"
    /\ \E c \in FetchedStashCalls : call' = c
    /\ stash' = ret.stash
    /\ ret' = None
    /\ pc' = "call"
    /\ UNCHANGED trace

NextFetched == FetchStash \/ MatchFetchedStash \/ FindComboMatches

SpecFetched == InitFetch /\ [][NextFetched]_vars

-----------------------------------------------------------------------------
(* main *)

\* The run of main is followed step by step: `pc` is the step to take next,
\* `call` holds what the run meets outside the program (the text on stdin or
\* the interrupt of its reading, the pages Airtable answers with, whether the
\* report can be written), `stash` and `ret` hold the locals stash and html.

IsSpace(c) == c \in {" ", "\n", "\t", "\r"}

RECURSIVE LStrip(_)
LStrip(s) ==
    IF s # <<>> /\ IsSpace(Head(s)) THEN LStrip(Tail(s)) ELSE s

RECURSIVE RStrip(_)
RStrip(s) ==
    IF s # <<>> /\ IsSpace(s[Len(s)]) THEN RStrip(SubSeq(s, 1, Len(s) - 1))
    ELSE s

\* str.strip()
Strip(text) == Str(RStrip(LStrip(text.chars)))

EmptyText == Str(<<>>)

\* ' \n'
BlankText ==
    Str(<<
        " ", "\n">>)

\* '{"yarns": ['
TruncatedText ==
    Str(<<
        "{", "\"", "y", "a", "r", "n", "s", "\"", ":", " ", "[">>)

\* '[7]'
ListText ==
    Str(<<
        "[", "7", "]">>)

\* '{"yarns": [{"grist_yd_per_g": 7, "yards_needed": 400}]}\n'
PatternText ==
    Str(<<
        "{", "\"", "y", "a", "r", "n", "s", "\"", ":", " ", "[", "{", "\"",
        "g", "r", "i", "s", "t", "_", "y", "d", "_", "p", "e", "r", "_", "g",
        "\"", ":", " ", "7", ",", " ", "\"", "y", "a", "r", "d", "s", "_",
        "n", "e", "e", "d", "e", "d", "\"", ":", " ", "4", "0", "0", "}",
        "]", "}", "\n">>)

\* ' {"yarns": [{"yards_needed": 400}], "combined_grist": 7}'
HeldTogetherText ==
    Str(<<
        " ", "{", "\"", "y", "a", "r", "n", "s", "\"", ":", " ", "[", "{",
        "\"", "y", "a", "r", "d", "s", "_", "n", "e", "e", "d", "e", "d",
        "\"", ":", " ", "4", "0", "0", "}", "]", ",", " ", "\"", "c", "o",
        "m", "b", "i", "n", "e", "d", "_", "g", "r", "i", "s", "t", "\"",
        ":", " ", "7", "}">>)

JSONDecodeError == [error |-> "JSONDecodeError"]

\* json.loads on the texts above, stripped: the value and its Python type
JsonTable ==
    {[text |-> Strip(TruncatedText), result |-> JSONDecodeError],
     [text |-> Strip(ListText),
      result |-> [type |-> "list", value |-> <<Num(7)>>]],
     [text |-> Strip(PatternText),
      result |->
        [type |-> "dict",
         value |-> [yarns |-> <<[grist_yd_per_g |-> Num(7),
                                 yards_needed |-> Num(400)]>>]]],
     [text |-> Strip(HeldTogetherText),
      result |->
        [type |-> "dict",
         value |-> [yarns |-> <<[yards_needed |-> Num(400)]>>,
                    combined_grist |-> Num(7)]]]}

json_loads(text) == (CHOOSE d \in JsonTable : d.text = text).result

\* sys.stdin.read().strip()
JsonInput(stdin) == Strip(stdin.text)

\* the reading of stdin is interrupted, or nothing but blanks is read
NoJsonProvided(stdin) ==
    \/ "interrupt" \in DOMAIN stdin
    \/ JsonInput(stdin) = EmptyText

\* the entries of `trace` for the steps of main
FetchStashCall == [fn |-> "fetch_stash"]
GenerateHtmlCall == [fn |-> "generate_html"]
WriteFile(html) == [fn |-> "write", html |-> html]
WebbrowserOpen == [fn |-> "webbrowser.open"]

\* lines 450-459: the two early returns
MainReadStdin ==
    /\ pc = "read_stdin"
    /\ call.fn = "main"
    /\ pc' = IF NoJsonProvided(call.stdin) THEN "exit" ELSE "json_loads"
    /\ UNCHANGED <<call, ret, stash, trace>>

\* lines 461-480: a text that is not JSON ends the run; a JSON value that is
\* not a dict makes pattern_data.get raise AttributeError
MainJsonLoads ==
    /\ pc = "json_loads"
    /\ call.fn = "main"
    /\ LET loaded == json_loads(JsonInput(call.stdin))
       IN  pc' = IF "error" \in DOMAIN loaded THEN "exit"
                 ELSE IF loaded.type # "dict" THEN "raise"
                 ELSE "fetch_stash"
    /\ UNCHANGED <<call, ret, stash, trace>>

\* AfterFetchError for a main that goes on with an empty stash
AfterFetchErrorContinues == "generate_html"

\* `return` in both except clauses
AfterFetchError == "exit"

\* lines 482-494
MainFetchStash ==
    /\ pc = "fetch_stash"
    /\ call.fn = "main"
    /\ trace' = (trace \o <<FetchStashCall>>)
                \o FetchScan(call.airtable).requests
    /\ IF FetchStashRaises(call.airtable) # ""
       THEN /\ pc' = AfterFetchError
            /\ stash' = stash
       ELSE /\ pc' = "generate_html"
            /\ stash' = fetch_stash(call.airtable)
    /\ UNCHANGED <<call, ret>>

\* lines 496-499
MainGenerateHtml ==
    /\ pc = "generate_html"
    /\ call.fn = "main"
    /\ \E out \in {generate_html(json_loads(JsonInput(call.stdin)).value,
                                 stash)} :
           /\ trace' = (trace \o <<GenerateHtmlCall>>) \o out.calls
           /\ ret' = out.html
    /\ pc' = "write"
    /\ UNCHANGED <<call, stash>>

\* lines 501-513: mkdir or open raise OSError when the report cannot be
\* written
MainWrite ==
    /\ pc = "write"
    /\ call.fn = "main"
    /\ IF call.writable
       THEN /\ trace' = Append(trace, WriteFile(ret))
            /\ pc' = "open_browser"
       ELSE /\ trace' = trace
            /\ pc' = "raise"
    /\ UNCHANGED <<call, ret, stash>>

\* lines 515-520
MainOpenBrowser ==
    /\ pc = "open_browser"
    /\ call.fn = "main"
    /\ trace' = Append(trace, WebbrowserOpen)
    /\ pc' = "exit"
    /\ UNCHANGED <<call, ret, stash>>

-----------------------------------------------------------------------------
(* The runs of main *)

Stdins ==
    {[interrupt |-> TRUE]}
    \cup [text : {EmptyText, BlankText, TruncatedText, ListText, PatternText,
                  HeldTogetherText}]

MainPages ==
    {HTTPError, ConnectionError,
     [records |-> <<[fields |-> [k \in {GristField} |-> Num(7)]]>>],
     [records |-> <<[fields |-> [k \in {YardsField} |-> Num(500)]]>>]}

InitMain ==
    /\ pc = "read_stdin"
    /\ call \in [fn : {"main"},
                 stdin : Stdins,
                 airtable : UNION {[1..n -> MainPages] : n \in 1..MaxPages},
                 writable : BOOLEAN]
    /\ ret = None
    /\ trace = <<>>
    /\ stash = <<>>

NextMain ==
    \/ MainReadStdin
    \/ MainJsonLoads
    \/ MainFetchStash
    \/ MainGenerateHtml
    \/ MainWrite
    \/ MainOpenBrowser

SpecMain == InitMain /\ [][NextMain]_vars

-----------------------------------------------------------------------------
(* Every call and every run the model makes *)

Init ==
    InitGrist \/ InitColor \/ InitSingle \/ InitCombo \/ InitScan \/ InitRank
    \/ InitSparse \/ InitHtml \/ InitFetch \/ InitMain

Next ==
    \/ GristMatches
    \/ CalculateCombinedGrist
    \/ FuzzyColorMatch
    \/ FindSingleMatches
    \/ FindComboMatches
    \/ GenerateHtml
    \/ FetchStash
    \/ MatchFetchedStash
    \/ CallAgain
    \/ NextMain

Spec == Init /\ [][Next]_vars

Returned(f) == pc = "return" /\ call.fn = f

-----------------------------------------------------------------------------
\* C1: grist_matches returns false whenever target or candidate is zero or
\* absent; otherwise it returns true exactly when
\* target*(1-tolerance) <= candidate <= target*(1+tolerance).  With the
\* default tolerance 0.10 and a target > 0, the candidate target*1.10 matches
\* and the candidate target*1.11 does not.
C1_GristMatchesContract ==
    Returned("grist_matches") =>
        LET t == call.target
            y == call.yarn
            tol == call.tolerance
            missing == t = None \/ y = None \/ t = Zero \/ y = Zero
        IN  /\ missing => ret = FALSE
            /\ ~missing =>
                 (ret = TRUE <=>
                    /\ RLe(RMul(t, RSub(One, tol)), y)
                    /\ RLe(y, RMul(t, RAdd(One, tol))))
            /\ (~missing /\ tol = DefaultTolerance /\ RLt(Zero, t)) =>
                 /\ y = RMul(t, R(110, 100)) => ret = TRUE
                 /\ y = RMul(t, R(111, 100)) => ret = FALSE

C1_Witness ==
    /\ Returned("grist_matches")
    /\ call.tolerance = DefaultTolerance
    /\ call.target = Num(7)
    /\ call.yarn = R(77, 10)
    /\ ret = TRUE

-----------------------------------------------------------------------------
(* The claims about find_single_matches *)

\* the positions of list at which the yarn at stash position i is recorded
Occurrences(list, i) == {k \in 1..Len(list) : list[k].yarn = i}

\* the yarn at stash position i is in exactly the list named by bucket, once
InOnly(bucket, i) ==
    /\ Cardinality(Occurrences(ret.enough, i)) =
         (IF bucket = "enough" THEN 1 ELSE 0)
    /\ Cardinality(Occurrences(ret.not_enough, i)) =
         (IF bucket = "not_enough" THEN 1 ELSE 0)
    /\ Cardinality(Occurrences(ret.unknown, i)) =
         (IF bucket = "unknown" THEN 1 ELSE 0)

\* the classification of the grist-matching yarns, target_yardage counting
\* as not given when it is one of notGiven
SingleClassification(notGiven) ==
    Returned("find_single_matches") =>
        \A i \in 1..Len(stash) :
            grist_matches(call.target_grist, stash[i].grist, DefaultTolerance) =>
                LET available == OrZero(stash[i].available_yards)
                    ty == call.target_yardage
                IN  IF ty \in notGiven
                    THEN IF RLt(Zero, available)
                         THEN InOnly("unknown", i)
                         ELSE InOnly("none", i)
                    ELSE IF RLe(ty, available)
                    THEN InOnly("enough", i)
                    ELSE /\ InOnly("not_enough", i)
                         /\ \A k \in Occurrences(ret.not_enough, i) :
                                ret.not_enough[k].needed = ty

C4_SingleOrdering ==
    Returned("find_single_matches") =>
        /\ \A k \in 1..(Len(ret.enough) - 1) :
               RLe(ret.enough[k].grist_diff, ret.enough[k + 1].grist_diff)
        /\ \A k \in 1..(Len(ret.not_enough) - 1) :
               RLe(ret.not_enough[k].grist_diff,
                   ret.not_enough[k + 1].grist_diff)
        /\ \A k \in 1..(Len(ret.unknown) - 1) :
               \/ RLt(ret.unknown[k + 1].have, ret.unknown[k].have)
               \/ /\ ret.unknown[k + 1].have = ret.unknown[k].have
                  /\ RLe(ret.unknown[k].grist_diff,
                         ret.unknown[k + 1].grist_diff)

\* the sort moved later yarns of the stash in front of earlier ones: one on
\* its larger available quantity, one on its smaller difference at equal
\* quantity
C4_Witness ==
    /\ Returned("find_single_matches")
    /\ Len(ret.unknown) = 3
    /\ ret.unknown[1].yarn > ret.unknown[2].yarn
    /\ RLt(ret.unknown[2].have, ret.unknown[1].have)
    /\ ret.unknown[2].have = ret.unknown[3].have
    /\ ret.unknown[2].yarn > ret.unknown[3].yarn
    /\ RLt(ret.unknown[2].grist_diff, ret.unknown[3].grist_diff)

-----------------------------------------------------------------------------
(* The claims about find_combo_matches *)

\* C5: a pair of stash yarns is in the output of find_combo_matches only if
\* fuzzy_color_match holds of the two colours and the combined grist of the
\* two yarns passes grist_matches against target_grist.  Two yarns of grist
\* 14 coloured "Red" and "Red Heather" with target grist 7 yield exactly one
\* combo, with combined_grist 7 and grist_diff_pct 0.
C5_ComboQualifies ==
    Returned("find_combo_matches") =>
        /\ \A k \in 1..Len(ret) :
               LET a == stash[ret[k].yarns[1]]
                   b == stash[ret[k].yarns[2]]
                   combined == calculate_combined_grist(<<a.grist, b.grist>>)
               IN  /\ fuzzy_color_match(a.color, b.color)
                   /\ combined # None
                   /\ ret[k].combined_grist = combined
                   /\ grist_matches(call.target_grist, combined,
                                    DefaultTolerance)
        /\ ( /\ Len(stash) = 2
             /\ stash[1].grist = Num(14) /\ stash[1].color = Red
             /\ stash[2].grist = Num(14) /\ stash[2].color = RedHeather
             /\ call.target_grist = Num(7)
             /\ call.max_combos >= 1 ) =>
               /\ Len(ret) = 1
               /\ ret[1].combined_grist = Num(7)
               /\ ret[1].grist_diff = Zero

C5_Witness ==
    /\ Returned("find_combo_matches")
    /\ stash = <<Yarn(Num(14), Num(500), Red), Yarn(Num(14), None, RedHeather)>>
    /\ call.max_combos = 2
    /\ Len(ret) = 1
    /\ ret[1].yarns = <<1, 2>>
    /\ ret[1].combined_grist = Num(7)

\* C6: find_combo_matches never pairs a stash entry with itself and never
\* emits the same unordered pair of stash positions twice.
C6_DistinctPairs ==
    Returned("find_combo_matches") =>
        /\ \A k \in 1..Len(ret) : ret[k].yarns[1] # ret[k].yarns[2]
        /\ \A k, l \in 1..Len(ret) :
               k # l => {ret[k].yarns[1], ret[k].yarns[2]} #
                        {ret[l].yarns[1], ret[l].yarns[2]}

C6_Witness ==
    /\ Returned("find_combo_matches")
    /\ Len(stash) = 3
    /\ Len(ret) = 2
    /\ ret[1].yarns = <<2, 3>>
    /\ ret[2].yarns = <<1, 2>>

\* C7: the list returned by find_combo_matches has at most max_results
\* entries, every combo with both_enough true precedes every combo with
\* both_enough false, and within each group the combos are in ascending
\* grist_diff_pct order.
C7_ComboOrdering ==
    Returned("find_combo_matches") =>
        /\ Len(ret) <= call.max_combos
        /\ \A k, l \in 1..Len(ret) :
               k < l =>
                 /\ ret[k].both_enough \/ ~ret[l].both_enough
                 /\ ret[k].both_enough = ret[l].both_enough =>
                      RLe(ret[k].grist_diff, ret[l].grist_diff)

\* a combo with both_enough true stands before one with a smaller difference
C7_Witness ==
    /\ Returned("find_combo_matches")
    /\ Len(ret) = 2
    /\ ret[1].both_enough
    /\ ~ret[2].both_enough
    /\ RLt(ret[2].grist_diff, ret[1].grist_diff)

\* C8: for every combo of find_combo_matches the sufficiency flag of yarn k
\* is true iff target_length is absent or the yarn's own available quantity
\* (absent counted as 0) is >= target_length, and both_enough is true iff
\* both flags are true; the two quantities are never added together.
C8_ComboSufficiency ==
    Returned("find_combo_matches") =>
        \A c \in 1..Len(ret) :
            /\ \A k \in 1..2 :
                   LET available == stash[ret[c].yarns[k]].available_yards
                       own == IF available = None THEN Zero ELSE available
                   IN  ret[c].enough[k] <=>
                         \/ call.target_yardage = None
                         \/ RLe(call.target_yardage, own)
            /\ ret[c].both_enough <=> (ret[c].enough[1] /\ ret[c].enough[2])

\* the two quantities together reach the target, one of them alone does not
C8_Witness ==
    /\ Returned("find_combo_matches")
    /\ call.target_yardage = Num(400)
    /\ Len(ret) >= 1
    /\ ret[1].has = <<Num(500), Zero>>
    /\ ret[1].enough = <<TRUE, FALSE>>
    /\ ~ret[1].both_enough

-----------------------------------------------------------------------------
(* The claims about fuzzy_color_match *)

\* the vocabulary as the claim C9 lists it, without the spelling "gray"
VocabularyWithoutGray ==
    SelectSeq(colors, LAMBDA c : c # <<"g", "r", "a", "y">>)

\* fuzzy_color_match on two non-empty strings neither of which is, in lower
\* case, equal to or part of the other, and not both of which hold a spelling
\* of grey: true iff both hold an entry of the vocabulary and the first such
\* entry is the same for both
SameBaseHue(vocabulary) ==
    (/\ Returned("fuzzy_color_match")
     /\ call.c1 # None /\ call.c1 # Str(<<>>)
     /\ call.c2 # None /\ call.c2 # Str(<<>>)) =>
        LET a == Lower(call.c1.chars)
            b == Lower(call.c2.chars)
            base_a == FirstContained(vocabulary, a)
            base_b == FirstContained(vocabulary, b)
        IN  (/\ a # b
             /\ ~Contains(a, b)
             /\ ~Contains(b, a)
             /\ ~(ContainsGrey(a) /\ ContainsGrey(b))) =>
                (ret = TRUE <=> (base_a # None /\ base_a = base_b))

\* C9 as stated: the base hue is the first entry of the vocabulary red, blue,
\* green, yellow, orange, purple, pink, brown, black, white, grey, cream,
\* beige, navy, teal, coral, burgundy, maroon, olive that occurs in the
\* lower-cased string, and fuzzy_color_match is true iff both strings have
\* the same base hue.
C9_Original_VocabularyWithoutGray == SameBaseHue(VocabularyWithoutGray)

\* C9, amended: the same, with the vocabulary of the code, which holds
\* "gray" between "grey" and "cream".
C9_SameBaseHue == SameBaseHue(colors)

OceanBlue == Str(<<"O", "c", "e", "a", "n", " ", "B", "l", "u", "e">>)
NavyBlue == Str(<<"N", "a", "v", "y", " ", "B", "l", "u", "e">>)
Scarlet == Str(<<"S", "c", "a", "r", "l", "e", "t">>)

C9_Witness ==
    /\ Returned("fuzzy_color_match")
    /\ call.c1 = OceanBlue
    /\ call.c2 = NavyBlue
    /\ ret = TRUE

\* C10: fuzzy_color_match returns false whenever either colour is empty or
\* absent; otherwise true whenever the strings are equal without regard to
\* case or one is part of the other, and true whenever both hold "grey" or
\* "gray".  ("Ocean Blue", "Navy Blue") is true, ("Red", "Scarlet") false.
C10_FuzzyColorPolicy ==
    Returned("fuzzy_color_match") =>
        LET missing == \/ call.c1 = None \/ call.c1 = Str(<<>>)
                       \/ call.c2 = None \/ call.c2 = Str(<<>>)
        IN  /\ missing => ret = FALSE
            /\ ~missing =>
                 LET a == Lower(call.c1.chars)
                     b == Lower(call.c2.chars)
                 IN  /\ (a = b \/ Contains(a, b) \/ Contains(b, a)) =>
                          ret = TRUE
                     /\ (ContainsGrey(a) /\ ContainsGrey(b)) => ret = TRUE
            /\ (call.c1 = OceanBlue /\ call.c2 = NavyBlue) => ret = TRUE
            /\ (call.c1 = Red /\ call.c2 = Scarlet) => ret = FALSE

\* one string is part of the other, and only one of them holds a hue
C10_Witness ==
    /\ Returned("fuzzy_color_match")
    /\ call.c1 = Str(<<"H", "e", "a", "t", "h", "e", "r">>)
    /\ call.c2 = RedHeather
    /\ ret = TRUE

\* C11: the matchers raise nothing on sparse data: an empty stash, a target
\* grist of zero or None, a yarn without available_yards, an empty or missing
\* colour; with an empty stash find_single_matches returns three empty lists
\* and find_combo_matches an empty list.
C11_SparseDataIsSafe ==
    /\ pc # "raise"
    /\ (Returned("find_single_matches") /\ stash = <<>>) =>
           ret = [enough |-> <<>>, not_enough |-> <<>>, unknown |-> <<>>]
    /\ (Returned("find_combo_matches") /\ stash = <<>>) => ret = <<>>

\* a target grist of zero met a yarn whose grist is zero and whose
\* available_yards is missing, next to a yarn with an empty colour
C11_Witness ==
    /\ Returned("find_single_matches")
    /\ call.target_grist = Zero
    /\ Len(stash) = 2
    /\ stash[1].grist = Zero
    /\ stash[1].available_yards = None
    /\ stash[2].color = EmptyColor

\* the calls of the matchers generate_html made for requirement k, in order
CallsFor(k) ==
    LET IsFor(e) == "requirement" \in DOMAIN e /\ e.requirement = k
    IN  SelectSeq(trace, IsFor)

\* the calls of find_single_matches against the combined grist, in order
CombinedCalls ==
    LET IsCombined(e) == "combined" \in DOMAIN e
    IN  SelectSeq(trace, IsCombined)

\* C12: in generate_html a requirement without target grist (absent, None or
\* 0) yields the "cannot match" group and no call of find_single_matches or
\* find_combo_matches; every other requirement, before or after it, yields its
\* group of matches from one call of find_single_matches followed by one of
\* find_combo_matches with its own targets, and the groups and the calls
\* follow the order of the requirements.
C12_CannotMatchContinues ==
    Returned("generate_html") =>
        LET yarns == Get(call.pattern_data, "yarns", <<>>)
        IN  /\ Len(ret) >= Len(yarns)
            /\ \A k \in 1..Len(yarns) :
                 LET tg == Get(yarns[k], "grist_yd_per_g", None)
                     ty == Get(yarns[k], "yards_needed", None)
                 IN  IF ~Truthy(tg)
                     THEN /\ ret[k] = CannotMatch(k)
                          /\ CallsFor(k) = <<>>
                     ELSE /\ ret[k].group = "matches"
                          /\ ret[k].requirement = k
                          /\ CallsFor(k) = <<SingleCall(k, tg, ty),
                                             ComboCall(k, tg, ty)>>
            /\ \A a, b \in 1..Len(trace) :
                 (/\ a < b
                  /\ "requirement" \in DOMAIN trace[a]
                  /\ "requirement" \in DOMAIN trace[b])
                 => trace[a].requirement <= trace[b].requirement

\* a requirement without grist stands between two requirements with a grist
C12_Witness ==
    /\ Returned("generate_html")
    /\ "yarns" \in DOMAIN call.pattern_data
    /\ Len(call.pattern_data.yarns) = 3
    /\ Get(call.pattern_data.yarns[1], "grist_yd_per_g", None) = Num(7)
    /\ "grist_yd_per_g" \notin DOMAIN call.pattern_data.yarns[2]
    /\ Get(call.pattern_data.yarns[3], "grist_yd_per_g", None) = Num(14)
    /\ ret[2] = CannotMatch(2)
    /\ Len(trace) >= 4
    /\ stash # <<>>

\* C13: when pattern_data has a combined_grist (a number other than 0),
\* generate_html calls find_single_matches exactly once more, after all the
\* calls made for the requirements, with target grist combined_grist and
\* target length the largest yards_needed of the requirements, a requirement
\* without one counting as 0 (None when there is no requirement); without a
\* combined_grist this call is not made.
C13_CombinedGristRun ==
    Returned("generate_html") =>
        LET yarns == Get(call.pattern_data, "yarns", <<>>)
            combined_grist == Get(call.pattern_data, "combined_grist", None)
            yards == {OrZero(Get(yarns[k], "yards_needed", None)) :
                         k \in 1..Len(yarns)}
        IN  IF Truthy(combined_grist)
            THEN /\ Len(CombinedCalls) = 1
                 /\ trace[Len(trace)] = CombinedCalls[1]
                 /\ CombinedCalls[1].fn = "find_single_matches"
                 /\ CombinedCalls[1].target_grist = combined_grist
                 /\ IF yards = {}
                    THEN CombinedCalls[1].target_yardage = None
                    ELSE /\ CombinedCalls[1].target_yardage \in yards
                         /\ \A y \in yards :
                              RLe(y, CombinedCalls[1].target_yardage)
                 /\ ret[Len(ret)].group = "combined"
            ELSE /\ CombinedCalls = <<>>
                 /\ \A k \in 1..Len(ret) : ret[k].group # "combined"

\* a combined grist came with requirements of 400, 600 and no yards, and the
\* last call asked for 600
C13_Witness ==
    /\ Returned("generate_html")
    /\ Get(call.pattern_data, "combined_grist", None) = Num(7)
    /\ "yarns" \in DOMAIN call.pattern_data
    /\ Len(call.pattern_data.yarns) = 3
    /\ Get(call.pattern_data.yarns[1], "yards_needed", None) = Num(400)
    /\ Get(call.pattern_data.yarns[2], "yards_needed", None) = Num(600)
    /\ "yards_needed" \notin DOMAIN call.pattern_data.yarns[3]
    /\ Len(trace) > 1
    /\ trace[Len(trace)] = CombinedCall(Num(7), Num(600))

\* C14: for every target grist (a number > 0) and every tolerance >= 0,
\* grist_matches(target, target, tolerance) is true.
C14_EqualGristMatches ==
    (/\ Returned("grist_matches")
     /\ call.target # None
     /\ RLt(Zero, call.target)
     /\ call.yarn = call.target
     /\ RLe(Zero, call.tolerance))
    => ret = TRUE

\* a candidate equal to its target was tested with a tolerance of 0
C14_Witness ==
    /\ Returned("grist_matches")
    /\ call.target = Num(7)
    /\ call.yarn = Num(7)
    /\ call.tolerance = Zero
    /\ ret = TRUE

C16_Original_PositiveGrist ==
    Returned("fetch_stash") =>
        \A k \in 1..Len(ret.stash) :
            /\ ret.stash[k].grist # None
            /\ RLt(Zero, ret.stash[k].grist)

\* fetch_stash returned a stash of two yarns of which the second has a grist
\* of 0
C16_ZeroGristKept ==
    /\ Returned("fetch_stash")
    /\ Len(ret.stash) = 2
    /\ ret.stash[1].grist = Num(7)
    /\ ret.stash[2].grist = Zero

\* the entries of the three lists find_single_matches returned
SingleEntries ==
    {ret.enough[k] : k \in 1..Len(ret.enough)}
    \cup {ret.not_enough[k] : k \in 1..Len(ret.not_enough)}
    \cup {ret.unknown[k] : k \in 1..Len(ret.unknown)}

MatcherStep == FindSingleMatches \/ FindComboMatches

StashPairs(n) == {p \in (1..n) \X (1..n) : p[1] < p[2]}

BeforeInScan(p, q) == p[1] < q[1] \/ (p[1] = q[1] /\ p[2] < q[2])

\* C20: with max_results >= 1 the scan of find_combo_matches never holds more
\* than 2*max_results combos; the pairs it examines are an initial stretch of
\* the scan order, each once; if 2*max_results combos were gathered, the last
\* pair examined is the one that completed them and no later pair is
\* examined, otherwise every pair is examined.
C20_ScanStopsAtTwiceMax ==
    (Returned("find_combo_matches") /\ call.max_combos >= 1) =>
        \A scan \in {ComboScan(call.target_grist, call.target_yardage, stash,
                                call.max_combos)} :
        LET examined == {scan.examined[k] : k \in 1..Len(scan.examined)}
            limit == 2 * call.max_combos
        IN  /\ Len(scan.combos) <= limit
            /\ examined \subseteq StashPairs(Len(stash))
            /\ \A k \in 1..(Len(scan.examined) - 1) :
                   BeforeInScan(scan.examined[k], scan.examined[k + 1])
            /\ \A p \in examined :
                   \A q \in StashPairs(Len(stash)) :
                       BeforeInScan(q, p) => q \in examined
            /\ Cardinality({p \in examined :
                               PairQualifies(call.target_grist, stash[p[1]],
                                             stash[p[2]])})
                 = Len(scan.combos)
            /\ IF Len(scan.combos) = limit
               THEN LET last == scan.examined[Len(scan.examined)]
                    IN  /\ last = scan.combos[limit].yarns
                        /\ PairQualifies(call.target_grist, stash[last[1]],
                                         stash[last[2]])
               ELSE examined = StashPairs(Len(stash))

\* with max_results 1 the pairs (1, 2) and (1, 3) filled the scan and the pair
\* (2, 3), which qualifies too, was not examined
C20_Witness ==
    /\ Returned("find_combo_matches")
    /\ call.max_combos = 1
    /\ Len(stash) = 3
    /\ PairQualifies(call.target_grist, stash[2], stash[3])
    /\ ComboScan(call.target_grist, call.target_yardage, stash,
                 call.max_combos).examined = <<(<<1, 2>>), (<<1, 3>>)>>
    /\ Len(ret) = 1

\* the functions recorded in `trace`
Called(f) == \E k \in 1..Len(trace) : trace[k].fn = f

\* every entry of `trace` for g comes after an entry for f
CalledBefore(f, g) ==
    \A k \in 1..Len(trace) :
        trace[k].fn = g => \E j \in 1..(k - 1) : trace[j].fn = f

\* the input of the run was read, is not empty and is the JSON text of a dict
InputParsed ==
    /\ "text" \in DOMAIN call.stdin
    /\ Strip(call.stdin.text) # EmptyText
    /\ "type" \in DOMAIN json_loads(Strip(call.stdin.text))
    /\ json_loads(Strip(call.stdin.text)).type = "dict"

\* no page of Airtable met by the fetch is a failure
FetchSucceeds ==
    \A i \in 1..Len(call.airtable) : "error" \notin DOMAIN call.airtable[i]

\* C19: in a run of main, generate_html and the matchers, the writing of the
\* report and the launch of the browser happen only after the input was read
\* non-empty and parsed and fetch_stash returned without error, in this order;
\* when the input is empty or unparsable or the fetch fails, none of them
\* happens and the run does not go past that step; no request of the fetch is
\* made before the input is parsed.
C19_MainStepsInOrder ==
    call.fn = "main" =>
        /\ (Called("fetch_stash") \/ Called("requests.get")) => InputParsed
        /\ CalledBefore("fetch_stash", "requests.get")
        /\ \A f \in {"generate_html", "find_single_matches",
                     "find_combo_matches", "write", "webbrowser.open"} :
               /\ Called(f) => (InputParsed /\ FetchSucceeds)
               /\ CalledBefore("fetch_stash", f)
        /\ CalledBefore("generate_html", "find_single_matches")
        /\ CalledBefore("generate_html", "write")
        /\ CalledBefore("write", "webbrowser.open")
        /\ ~InputParsed => pc \in {"read_stdin", "json_loads", "exit", "raise"}
        /\ (InputParsed /\ ~FetchSucceeds) =>
               pc \in {"read_stdin", "json_loads", "fetch_stash", "exit"}

\* a run whose fetch took two pages ended after the report was written and
\* the browser launched
C19_Witness ==
    /\ call.fn = "main"
    /\ pc = "exit"
    /\ "text" \in DOMAIN call.stdin
    /\ call.stdin.text = PatternText
    /\ Len(call.airtable) = 2
    /\ Len(stash) = 1
    /\ trace[1] = FetchStashCall
    /\ trace[Len(trace)] = WebbrowserOpen
    /\ Called("write")
    /\ Called("find_combo_matches")

-----------------------------------------------------------------------------
(* The claims about the pairs find_combo_matches leaves out *)

\* the pairs of the stash that pass both tests of the inner loop
QualifyingPairs ==
    {p \in StashPairs(Len(stash)) :
        PairQualifies(call.target_grist, stash[p[1]], stash[p[2]])}

\* the combo the inner loop builds of the pair p
PairCombo(p) ==
    Combo(call.target_grist, call.target_yardage, stash, p[1], p[2],
          calculate_combined_grist(<<stash[p[1]].grist, stash[p[2]].grist>>))

ReturnedPairs == {ret[k].yarns : k \in 1..Len(ret)}

\* c has both_enough true and a smaller grist_diff than d
RanksStrictlyBetter(c, d) == c.both_enough /\ RLt(c.grist_diff, d.grist_diff)

\* the qualifying pairs that are not returned although they rank strictly
\* better than a pair that is
OmittedBetterPairs ==
    {p \in QualifyingPairs \ ReturnedPairs :
        \E k \in 1..Len(ret) : RanksStrictlyBetter(PairCombo(p), ret[k])}

\* C21: find_combo_matches can leave out a qualifying pair that ranks
\* strictly better (both_enough true, smaller grist_diff_pct) than a pair it
\* returns, and it does so only because the scan stopped at the threshold:
\* the scan then holds 2*max_results combos and the pair left out comes after
\* every pair the scan examined.
C21_BetterPairLostToThreshold ==
    Returned("find_combo_matches") =>
        \A scan \in {ComboScan(call.target_grist, call.target_yardage, stash,
                               call.max_combos)} :
            \A p \in OmittedBetterPairs :
                /\ call.max_combos >= 1
                /\ Len(scan.combos) = 2 * call.max_combos
                /\ \A k \in 1..Len(scan.examined) :
                       BeforeInScan(scan.examined[k], p)

\* with max_results 1 the scan stops after the pairs (1, 2) and (1, 3), whose
\* combined grist is off the target, and the pair (2, 3), whose combined grist
\* is the target, is left out
C21_Witness ==
    /\ Returned("find_combo_matches")
    /\ call.max_combos = 1
    /\ Len(stash) = 3
    /\ Len(ret) = 1
    /\ ret[1].yarns = <<1, 2>>
    /\ RLt(Zero, ret[1].grist_diff)
    /\ <<2, 3>> \in OmittedBetterPairs
    /\ PairCombo(<<2, 3>>).grist_diff = Zero
    /\ PairCombo(<<2, 3>>).both_enough

-----------------------------------------------------------------------------
(* The claim about the three lists of find_single_matches taken together *)

\* how often the yarn at stash position i is recorded in the three lists
TimesListed(i) ==
    Cardinality(Occurrences(ret.enough, i))
    + Cardinality(Occurrences(ret.not_enough, i))
    + Cardinality(Occurrences(ret.unknown, i))

\* C22: in the result of find_single_matches every entry stands for a yarn of
\* the stash and no yarn is recorded more than once in the three lists; when
\* target_length is given and not zero, every grist-matching yarn is recorded
\* exactly once, in `enough` or in `insufficient`, and `unknown` is empty;
\* when target_length is absent, `enough` and `insufficient` are empty.
C22_SingleListsPartition ==
    Returned("find_single_matches") =>
        /\ \A i \in 1..Len(stash) : TimesListed(i) <= 1
        /\ Len(ret.enough) + Len(ret.not_enough) + Len(ret.unknown)
             = Cardinality({i \in 1..Len(stash) : TimesListed(i) = 1})
        /\ Truthy(call.target_yardage) =>
             /\ ret.unknown = <<>>
             /\ \A i \in 1..Len(stash) :
                    grist_matches(call.target_grist, stash[i].grist,
                                  DefaultTolerance) =>
                        Cardinality(Occurrences(ret.enough, i))
                        + Cardinality(Occurrences(ret.not_enough, i)) = 1
        /\ call.target_yardage = None =>
             /\ ret.enough = <<>>
             /\ ret.not_enough = <<>>

\* of three yarns one has enough, one falls short and one does not match the
\* grist
C22_Witness ==
    /\ Returned("find_single_matches")
    /\ Truthy(call.target_yardage)
    /\ Len(stash) = 3
    /\ Len(ret.enough) = 1
    /\ Len(ret.not_enough) = 1
    /\ ret.unknown = <<>>
    /\ \E i \in 1..3 :
           /\ ~grist_matches(call.target_grist, stash[i].grist,
                             DefaultTolerance)
           /\ TimesListed(i) = 0

-----------------------------------------------------------------------------
(* The claim about the stashes whose qualifying pairs all fit in the scan *)

\* the pair p stands before the pair q in the ranking: both_enough first, then
\* the smaller grist_diff, then the earlier pair of the scan
RanksBefore(p, q) ==
    LET c == PairCombo(p)
        d == PairCombo(q)
    IN  \/ c.both_enough /\ ~d.both_enough
        \/ /\ c.both_enough = d.both_enough
           /\ RLt(c.grist_diff, d.grist_diff)
        \/ /\ c.both_enough = d.both_enough
           /\ c.grist_diff = d.grist_diff
           /\ BeforeInScan(p, q)

\* C23: when the stash holds at most 2*max_results qualifying pairs,
\* find_combo_matches returns the first max_results of all of them (all of
\* them when they are fewer) under the ranking both_enough first, then
\* ascending grist_diff_pct, ties in scan order: the k-th combo returned is
\* the combo of the qualifying pair that has exactly k-1 qualifying pairs
\* before it in the ranking.
C23_CompleteBelowThreshold ==
    (/\ Returned("find_combo_matches")
     /\ Cardinality(QualifyingPairs) <= 2 * call.max_combos) =>
        /\ Len(ret) = IF Cardinality(QualifyingPairs) < call.max_combos
                      THEN Cardinality(QualifyingPairs)
                      ELSE call.max_combos
        /\ \A k \in 1..Len(ret) :
               /\ ret[k].yarns \in QualifyingPairs
               /\ ret[k] = PairCombo(ret[k].yarns)
               /\ Cardinality({q \in QualifyingPairs :
                                  RanksBefore(q, ret[k].yarns)}) = k - 1

\* with max_results 1 the stash holds exactly two qualifying pairs, and the
\* one returned is the last pair of the scan, (2, 3), which has enough of both
\* yarns while the pair (1, 3) has not
C23_Witness ==
    /\ Returned("find_combo_matches")
    /\ call.max_combos = 1
    /\ Len(stash) = 3
    /\ QualifyingPairs = {<<1, 3>>, <<2, 3>>}
    /\ ~PairCombo(<<1, 3>>).both_enough
    /\ Len(ret) = 1
    /\ ret[1].yarns = <<2, 3>>
    /\ ret[1].both_enough

-----------------------------------------------------------------------------
(* The claim about the combined grist of the pairs of a fetched stash *)

\* 1/(1/ga + 1/gb) has a value
HeldTogetherDefined(ga, gb) ==
    /\ ga # Zero
    /\ gb # Zero
    /\ RAdd(RDiv(One, ga), RDiv(One, gb)) # Zero

\* 1/(1/ga + 1/gb)
HeldTogether(ga, gb) == RDiv(One, RAdd(RDiv(One, ga), RDiv(One, gb)))

\* C24: for a stash that fetch_stash returned (no grist is None), every combo
\* of find_combo_matches has combined_grist = 1/(1/ga + 1/gb), ga and gb being
\* the grists of its two yarns, and so a combined_grist strictly smaller than
\* ga and than gb; no pair is emitted on the grist of one yarn alone.
C24_Original_BothGristsCombined ==
    (/\ Returned("find_combo_matches")
     /\ \A k \in 1..Len(stash) : stash[k].grist # None) =>
        \A c \in 1..Len(ret) :
            LET ga == stash[ret[c].yarns[1]].grist
                gb == stash[ret[c].yarns[2]].grist
            IN  /\ HeldTogetherDefined(ga, gb)
                /\ ret[c].combined_grist = HeldTogether(ga, gb)
                /\ RLt(ret[c].combined_grist, ga)
                /\ RLt(ret[c].combined_grist, gb)

\* fetch_stash returned a yarn of grist 7 and a yarn of grist 0, and
\* find_combo_matches emitted the pair with the combined grist 7
C24_ZeroGristPairEmitted ==
    /\ Returned("find_combo_matches")
    /\ Len(trace) >= 1
    /\ trace[1] = RequestsGet(1)
    /\ Len(stash) = 2
    /\ stash[1].grist = Num(7)
    /\ stash[2].grist = Zero
    /\ Len(ret) = 1
    /\ ret[1].yarns = <<1, 2>>
    /\ ret[1].combined_grist = Num(7)
    /\ ret[1].grist_diff = Zero

=============================================================================
